---- MODULE Spec2Model ----
(***************************************************************************)
(* Road-trip planner: the get_directions tool of the Google Maps MCP       *)
(* server (src/mcpserver_plus/google_maps_server.py), the agent's          *)
(* after_tool_callback (src/agent/roadtrip_planner_mcp_search_callback/    *)
(* agent.py) and the Streamlit map view with its display_map tool          *)
(* (src/streamlit/app.py).                                                 *)
(*                                                                         *)
(* Python values are records tagged by "type": a dict, a str, None, or a   *)
(* raised exception that left the function.  Route coordinates are opaque  *)
(* data copied through; each leg end carries a distinct tag so that the    *)
(* leg a coordinate was copied from can be told.  distance_text is not     *)
(* modelled, nor is the chat history (st.session_state.messages): no       *)
(* property below reads them.                                              *)
(***************************************************************************)
EXTENDS Integers, Sequences, FiniteSets, TLC

\* ------------------------------------------------------------------ bounds
MaxLandmarks == 3
MaxDurationSteps == 150
DurationStride == 601
MaxPolylineLen == 3
MaxTurnCalls == 2

VARIABLES
    request,                \* arguments of the last get_directions call
    response,               \* what client.compute_routes did in that call
    result,                 \* the last tool's return value (tool_response)
    provider_calls,         \* compute_routes calls made by that invocation
    pending,                \* a tool has returned; its value is not yet handed on
    tool_context_map_data,  \* tool_context.state['map_data']
    session_map_data,       \* st.session_state.map_data
    pc,                     \* where the Streamlit script stands
    turn_calls,             \* tools the agent has invoked in the current turn
    last_call,              \* the arguments of the agent's latest tool call
    view                    \* what the map column showed on its last render

vars == <<request, response, result, provider_calls, pending,
          tool_context_map_data, session_map_data, pc,
          turn_calls, last_call, view>>

serverVars == <<request, response, result, provider_calls>>
callbackVars == <<pending, tool_context_map_data>>
uiVars == <<session_map_data, pc, turn_calls, last_call, view>>

\* ----------------------------------------------------------- Python values
None == [type |-> "None"]

\* json.dumps({"error": msg}): a str, not a dict
ErrorJson(msg) == [type |-> "str", error |-> msg]

\* an exception that propagates out of the function
Raised(exc) == [type |-> "raise", exception |-> exc]

\* seq[i] for a Python list: negative indices count from the end
PyIndexOK(s, i) == i >= -Len(s) /\ i < Len(s)

PyIndex(s, i) == IF i >= 0 THEN s[i + 1] ELSE s[Len(s) + i + 1]

\* ------------------------------------------------------- provider responses
LatLng(j) == [latitude |-> 100 + j, longitude |-> 200 + j]

Leg(k) ==
    [start_location |-> [lat_lng |-> LatLng(k - 1)],
     end_location |-> [lat_lng |-> LatLng(k)]]

Legs(n) == [k \in 1..n |-> Leg(k)]

Route(perm, nlegs, seconds, poly) ==
    [optimized_intermediate_waypoint_index |-> perm,
     legs |-> Legs(nlegs),
     duration |-> [seconds |-> seconds],
     description |-> "via I-80",
     polyline |-> [encoded_polyline |-> poly]]

ProviderRaises == [kind |-> "raises", message |-> "503 unavailable"]

ProviderRoutes(routes) == [kind |-> "routes", routes |-> routes]

NotCalled == [kind |-> "not_called"]

\* ----------------------------------------------------------- travel modes
\* str.upper() on the travel_mode strings the model passes
TravelModeInputs ==
    {"DRIVE", "drive", "Bicycle", "WALK", "two_wheeler", "TRANSIT", "transit",
     "TRAVEL_MODE_UNSPECIFIED", "travel_mode_unspecified", "FLY", "car", ""}

Upper(s) ==
    CASE s = "drive" -> "DRIVE"
      [] s = "Bicycle" -> "BICYCLE"
      [] s = "two_wheeler" -> "TWO_WHEELER"
      [] s = "transit" -> "TRANSIT"
      [] s = "travel_mode_unspecified" -> "TRAVEL_MODE_UNSPECIFIED"
      [] s = "car" -> "CAR"
      [] OTHER -> s

\* the member names of google.maps.routing_v2's RouteTravelMode enum
RouteTravelModeNames ==
    {"TRAVEL_MODE_UNSPECIFIED", "DRIVE", "BICYCLE", "WALK", "TWO_WHEELER",
     "TRANSIT"}

\* RouteTravelMode[travel_mode.upper()] does not raise KeyError
TravelModeAccepted(travel_mode) == Upper(travel_mode) \in RouteTravelModeNames

\* -------------------------------------------------------- get_directions
\* minutes rounded to the nearest instead of cut
DurationText_Rounded(duration_seconds) ==
    LET hours == duration_seconds \div 3600
        minutes == ((duration_seconds % 3600) + 30) \div 60
    IN  ToString(hours) \o " hr " \o ToString(minutes) \o " min"

DurationText(duration_seconds) ==
    LET hours == duration_seconds \div 3600
        minutes == (duration_seconds % 3600) \div 60
    IN  ToString(hours) \o " hr " \o ToString(minutes) \o " min"

OriginWaypoint(from_address, route) ==
    [address |-> from_address,
     lat |-> route.legs[1].start_location.lat_lng.latitude,
     lng |-> route.legs[1].start_location.lat_lng.longitude,
     details |-> "Starting Point"]

DestinationWaypoint(to_address, route) ==
    [address |-> to_address,
     lat |-> route.legs[Len(route.legs)].end_location.lat_lng.latitude,
     lng |-> route.legs[Len(route.legs)].end_location.lat_lng.longitude,
     details |-> "Destination"]

\* one pass of either loop body; i is the 0-based enumerate() index
StopWaypoint(address, route, i) ==
    LET leg_for_this_stop == route.legs[i + 1]
    IN  [address |-> address,
         lat |-> leg_for_this_stop.end_location.lat_lng.latitude,
         lng |-> leg_for_this_stop.end_location.lat_lng.longitude,
         details |-> "Stop " \o ToString(i + 1) \o ": " \o address]

\* the address read at the optimized position itself, as if the provider's
\* order were the caller's
OptimizedStop_IgnoresPermutation(landmarks_to_visit, route, i) ==
    LET original_index == route.optimized_intermediate_waypoint_index[i + 1]
        original_address ==
            IF i < Len(landmarks_to_visit)
            THEN landmarks_to_visit[i + 1]
            ELSE PyIndex(landmarks_to_visit, original_index)
    IN  StopWaypoint(original_address, route, i)

OptimizedStop(landmarks_to_visit, route, i) ==
    LET original_index == route.optimized_intermediate_waypoint_index[i + 1]
        original_address == PyIndex(landmarks_to_visit, original_index)
    IN  StopWaypoint(original_address, route, i)

\* the stop numbered from 0
GivenOrderStop_NumberedFromZero(landmarks_to_visit, route, i) ==
    [StopWaypoint(landmarks_to_visit[i + 1], route, i) EXCEPT
        !.details = "Stop " \o ToString(i) \o ": " \o landmarks_to_visit[i + 1]]

GivenOrderStop(landmarks_to_visit, route, i) ==
    StopWaypoint(landmarks_to_visit[i + 1], route, i)

\* the first loop hits an IndexError: landmarks_to_visit[original_index] or
\* route.legs[i]
OptimizedLoopRaises(landmarks_to_visit, route) ==
    \E i \in 0..(Len(route.optimized_intermediate_waypoint_index) - 1) :
        \/ ~PyIndexOK(landmarks_to_visit,
                      route.optimized_intermediate_waypoint_index[i + 1])
        \/ i >= Len(route.legs)

\* the second loop hits an IndexError: route.legs[i]
GivenOrderLoopRaises(landmarks_to_visit, route) ==
    \E i \in 0..(Len(landmarks_to_visit) - 1) : i >= Len(route.legs)

Intermediates(landmarks_to_visit, route) ==
    IF route.optimized_intermediate_waypoint_index # <<>>
    THEN [k \in 1..Len(route.optimized_intermediate_waypoint_index) |->
              OptimizedStop(landmarks_to_visit, route, k - 1)]
    ELSE IF landmarks_to_visit # <<>>
    THEN [k \in 1..Len(landmarks_to_visit) |->
              GivenOrderStop(landmarks_to_visit, route, k - 1)]
    ELSE <<>>

IntermediatesRaise(landmarks_to_visit, route) ==
    IF route.optimized_intermediate_waypoint_index # <<>>
    THEN OptimizedLoopRaises(landmarks_to_visit, route)
    ELSE GivenOrderLoopRaises(landmarks_to_visit, route)

\* lines 99-167: the first route reshaped into the result dict
Normalize(req, route) ==
    IF Len(route.legs) = 0
    THEN Raised("IndexError")
    ELSE IF IntermediatesRaise(req.landmarks_to_visit, route)
    THEN Raised("IndexError")
    ELSE [type |-> "dict",
          description |-> route.description,
          duration_text |-> DurationText(route.duration.seconds),
          encoded_polyline |-> route.polyline.encoded_polyline,
          ordered_waypoints |->
              <<OriginWaypoint(req.from_address, route)>>
              \o Intermediates(req.landmarks_to_visit, route)
              \o <<DestinationWaypoint(req.to_address, route)>>]

\* the whole tool: [result, calls, response] for arguments req when
\* client.compute_routes would behave as outcome
get_directions(req, outcome) ==
    IF ~TravelModeAccepted(req.travel_mode)
    THEN [result |-> ErrorJson("Invalid travel mode: " \o req.travel_mode
                       \o ". Use 'DRIVE', 'BICYCLE', 'WALK', or 'TWO_WHEELER'."),
          calls |-> 0,
          response |-> NotCalled]
    ELSE IF outcome.kind = "raises"
    THEN [result |-> ErrorJson("Error computing routes: " \o outcome.message),
          calls |-> 1,
          response |-> outcome]
    ELSE IF outcome.routes = <<>>
    THEN [result |-> ErrorJson("No route found. Addresses may not have been valid. Please be more specific."),
          calls |-> 1,
          response |-> outcome]
    ELSE [result |-> Normalize(req, outcome.routes[1]),
          calls |-> 1,
          response |-> outcome]

\* ------------------------------------------------------------------ inputs
Addresses == {"A", "B", "C"}

SeqsUpTo(S, n) == UNION {[1..k -> S] : k \in 0..n}

Injective(s) == \A i, j \in 1..Len(s) : s[i] = s[j] => i = j

Request(landmarks, mode) ==
    [from_address |-> "Home", to_address |-> "Work",
     landmarks_to_visit |-> landmarks, travel_mode |-> mode]

\* what the provider may put in optimizedIntermediateWaypointIndex for n
\* requested intermediates: nothing, a permutation, or a list that is too
\* short, too long, or holds an index outside 0..n-1
IndexLists(n) == {p \in SeqsUpTo(-1..n, n + 1) : Injective(p)}

Outcomes(n, durations) ==
    {ProviderRaises, ProviderRoutes(<<>>)}
    \cup {ProviderRoutes(<<Route(p, nl, s, "_p~iF~ps|U")>>) :
              p \in IndexLists(n), nl \in 0..(n + 1), s \in durations}

\* ------------------------------------------------------------- the machine
Init ==
    /\ request = None
    /\ response = NotCalled
    /\ result = None
    /\ provider_calls = 0
    /\ pending = FALSE
    /\ tool_context_map_data = None
    /\ session_map_data = None
    /\ pc = "idle"
    /\ turn_calls = <<>>
    /\ last_call = None
    /\ view = [error |-> "none", map |-> "none"]

\* the agent runtime invokes the get_directions tool; one tool call is in
\* flight at a time
GetDirections(req, outcome) ==
    LET r == get_directions(req, outcome)
    IN  /\ ~pending
        /\ request' = req
        /\ response' = r.response
        /\ result' = r.result
        /\ provider_calls' = r.calls
        /\ pending' = TRUE
        /\ UNCHANGED <<tool_context_map_data, uiVars>>

\* roadtrip_planner_mcp: no callback is registered; the tool's value goes
\* back to the agent and the invocation's TripRequest is not retained
ToolReturn ==
    /\ pending
    /\ pending' = FALSE
    /\ request' = None
    /\ response' = NotCalled
    /\ result' = None
    /\ provider_calls' = 0
    /\ UNCHANGED <<tool_context_map_data, uiVars>>

\* route normalisation: every landmark list, every shape of first route
NormalizeCall ==
    /\ ~pending
    /\ \E landmarks \in SeqsUpTo(Addresses, MaxLandmarks) :
           \E outcome \in Outcomes(Len(landmarks), {5425}) :
               GetDirections(Request(landmarks, "DRIVE"), outcome)

NormalizeNext == NormalizeCall \/ ToolReturn

Spec == Init /\ [][NormalizeNext]_vars

\* the frame of the call that has just returned
N == Len(request.landmarks_to_visit)

HasRoute == response.kind = "routes" /\ response.routes # <<>>

FirstRoute == response.routes[1]

Permutation == FirstRoute.optimized_intermediate_waypoint_index

IsPermutation(p, n) == Len(p) = n /\ {p[k] : k \in 1..Len(p)} = 0..(n - 1)

\* C1: when the first route carries a permutation P of 0..N-1 of the N >= 1
\* landmarks L (and a leg for every stop), the waypoint after the origin at
\* optimized position i has address L[P[i]], details "Stop {i+1}: {L[P[i]]}"
\* and the end coordinates of the provider's leg i.
C1_PermutationCorrectness ==
    (pending /\ HasRoute /\ N >= 1 /\ IsPermutation(Permutation, N)
        /\ Len(FirstRoute.legs) >= N)
    => /\ result.type = "dict"
       /\ Len(result.ordered_waypoints) >= N + 1
       /\ \A i \in 0..(N - 1) :
            LET wp == result.ordered_waypoints[i + 2]
                original == request.landmarks_to_visit[Permutation[i + 1] + 1]
                end == FirstRoute.legs[i + 1].end_location.lat_lng
            IN  /\ wp.address = original
                /\ wp.details = "Stop " \o ToString(i + 1) \o ": " \o original
                /\ wp.lat = end.latitude
                /\ wp.lng = end.longitude

C1_Witness ==
    /\ pending /\ HasRoute
    /\ request.landmarks_to_visit = <<"A", "B", "C">>
    /\ Permutation = <<2, 0, 1>>
    /\ Len(FirstRoute.legs) = 4
    /\ result.type = "dict"
    /\ result.ordered_waypoints[2].details = "Stop 1: C"
    /\ result.ordered_waypoints[3].details = "Stop 2: A"
    /\ result.ordered_waypoints[4].details = "Stop 3: B"
    /\ result.ordered_waypoints[4].lat = 103

\* C2: every returned ordered_waypoints has N+2 entries, the first the
\* origin labelled "Starting Point", the last the destination labelled
\* "Destination"; with no landmarks it has 2 entries and no error comes back.
C2_WaypointCount ==
    /\ (pending /\ result.type = "dict")
       => /\ Len(result.ordered_waypoints) = N + 2
          /\ result.ordered_waypoints[1].address = request.from_address
          /\ result.ordered_waypoints[1].details = "Starting Point"
          /\ result.ordered_waypoints[Len(result.ordered_waypoints)].address
                = request.to_address
          /\ result.ordered_waypoints[Len(result.ordered_waypoints)].details
                = "Destination"
    /\ (pending /\ HasRoute /\ N = 0 /\ Permutation = <<>>
            /\ Len(FirstRoute.legs) >= 1)
       => (result.type = "dict" /\ Len(result.ordered_waypoints) = 2)

\* C3: a non-empty permutation array whose length is not the number of
\* landmarks makes the call fail with an error payload, never a RouteResult.
\* (Stated on routes that are otherwise well formed: every index names a
\* landmark and every returned intermediate has its leg.)
C3_MismatchedPermutationFails ==
    (pending /\ HasRoute /\ Permutation # <<>> /\ Len(Permutation) # N
        /\ \A k \in 1..Len(Permutation) : Permutation[k] \in 0..(N - 1)
        /\ Len(FirstRoute.legs) = Len(Permutation) + 1)
    => (result.type = "str" /\ "error" \in DOMAIN result)

\* C4: whatever the provider does, the call returns a RouteResult or an
\* error payload with a description; no exception leaves get_directions.
C4_NoExceptionEscapes ==
    pending =>
        \/ result.type = "dict"
        \/ result.type = "str" /\ "error" \in DOMAIN result

\* C10: when the first route carries no permutation array and N >= 1
\* landmarks were requested, the N stops come back in the caller's order,
\* stop i with landmarks_to_visit[i], "Stop {i+1}: ..." and the end of leg i.
C10_GivenOrderFallback ==
    (pending /\ HasRoute /\ N >= 1 /\ Permutation = <<>>
        /\ Len(FirstRoute.legs) >= N)
    => /\ result.type = "dict"
       /\ Len(result.ordered_waypoints) = N + 2
       /\ \A i \in 0..(N - 1) :
            LET wp == result.ordered_waypoints[i + 2]
                address == request.landmarks_to_visit[i + 1]
                end == FirstRoute.legs[i + 1].end_location.lat_lng
            IN  /\ wp.address = address
                /\ wp.details = "Stop " \o ToString(i + 1) \o ": " \o address
                /\ wp.lat = end.latitude
                /\ wp.lng = end.longitude

C10_Witness ==
    /\ pending /\ HasRoute
    /\ request.landmarks_to_visit = <<"C", "A", "C">>
    /\ Permutation = <<>>
    /\ Len(FirstRoute.legs) = 4
    /\ result.type = "dict"
    /\ result.ordered_waypoints[2].details = "Stop 1: C"
    /\ result.ordered_waypoints[3].details = "Stop 2: A"
    /\ result.ordered_waypoints[4].details = "Stop 3: C"
    /\ result.ordered_waypoints[4].lat = 103

\* ------------------------------------------------------------ travel modes
TravelModeCall ==
    /\ ~pending
    /\ \E mode \in TravelModeInputs :
        \E landmarks \in SeqsUpTo(Addresses, 1) :
           \E outcome \in Outcomes(Len(landmarks), {5425}) :
               GetDirections(Request(landmarks, mode), outcome)

TravelModeNext == TravelModeCall \/ ToolReturn

SpecTravelMode == Init /\ [][TravelModeNext]_vars

\* the enumerated set of the TripRequest
TripRequestTravelModes == {"DRIVE", "BICYCLE", "WALK", "TWO_WHEELER", "TRANSIT"}

\* C5: a travel_mode outside {DRIVE, BICYCLE, WALK, TWO_WHEELER, TRANSIT}
\* (ignoring case) gets an error payload without any provider call; no
\* invocation calls the provider more than once.
C5_TravelModeValidated ==
    pending =>
        /\ Upper(request.travel_mode) \notin TripRequestTravelModes
           => /\ result.type = "str" /\ "error" \in DOMAIN result
              /\ provider_calls = 0
              /\ response = NotCalled
        /\ provider_calls <= 1

\* ---------------------------------------------------------------- durations
Durations ==
    {q * DurationStride : q \in 0..MaxDurationSteps}
    \cup {59, 60, 3599, 3600, 5425, 86399, 86400}

DurationCall ==
    /\ ~pending
    /\ \E s \in Durations :
        GetDirections(Request(<<>>, "DRIVE"),
                      ProviderRoutes(<<Route(<<>>, 1, s, "_p~iF~ps|U")>>))

DurationNext == DurationCall \/ ToolReturn

SpecDuration == Init /\ [][DurationNext]_vars

HoursBound == (MaxDurationSteps * DurationStride) \div 3600 + 48

IsMapResponse_EitherKey(tool_response) ==
    /\ tool_response.type = "dict"
    /\ \/ "encoded_polyline" \in DOMAIN tool_response
       \/ "ordered_waypoints" \in DOMAIN tool_response

IsMapResponse(tool_response) ==
    /\ tool_response.type = "dict"
    /\ "encoded_polyline" \in DOMAIN tool_response
    /\ "ordered_waypoints" \in DOMAIN tool_response

\* roadtrip_planner_mcp_search_callback: runs after any tool executes
after_tool_callback ==
    /\ pending
    /\ tool_context_map_data' =
           IF IsMapResponse(result) THEN result ELSE tool_context_map_data
    /\ pending' = FALSE
    /\ UNCHANGED <<serverVars, uiVars>>

\* what the agent's other tools (SearchAgent, other MCP tools) may return
OtherToolResponses ==
    {[type |-> "str", text |-> "things to do"],
     [type |-> "dict", result |-> "things to do"],
     [type |-> "dict", encoded_polyline |-> "_p~iF~ps|U"],
     [type |-> "dict", ordered_waypoints |-> <<>>]}

OtherTool ==
    /\ ~pending
    /\ \E r \in OtherToolResponses : result' = r
    /\ request' = None
    /\ response' = NotCalled
    /\ provider_calls' = 0
    /\ pending' = TRUE
    /\ UNCHANGED <<tool_context_map_data, uiVars>>

CallbackToolCall ==
    /\ ~pending
    /\ \E landmarks \in SeqsUpTo(Addresses, 1) :
        \E outcome \in Outcomes(Len(landmarks), {5425}) :
            GetDirections(Request(landmarks, "DRIVE"), outcome)

CallbackNext == CallbackToolCall \/ OtherTool \/ after_tool_callback

SpecCallback == Init /\ [][CallbackNext]_vars

NoRouteFoundMessage ==
    "No route found. Addresses may not have been valid. Please be more specific."

\* C6: zero routes come back as the "No route found ... Please be more
\* specific." error value, and a tool response that is not a dict holding
\* both encoded_polyline and ordered_waypoints leaves map_data as it was
\* when after_tool_callback has processed it.
C6_NoRouteLeavesMapUntouched ==
    [][/\ (~pending /\ pending' /\ response'.kind = "routes"
              /\ response'.routes = <<>>)
          => result' = [type |-> "str", error |-> NoRouteFoundMessage]
       /\ (pending /\ ~pending'
              /\ ~(result.type = "dict"
                     /\ {"encoded_polyline", "ordered_waypoints"}
                            \subseteq DOMAIN result))
          => tool_context_map_data' = tool_context_map_data]_vars

C6_Witness ==
    /\ ~pending
    /\ response.kind = "routes" /\ response.routes = <<>>
    /\ result = [type |-> "str", error |-> NoRouteFoundMessage]
    /\ tool_context_map_data.type = "dict"
    /\ Len(tool_context_map_data.ordered_waypoints) = 3

\* ------------------------------------------------------- Streamlit map view
\* In this part an encoded polyline is the sequence of its characters' codes
\* (ord): "?" is 63, "@" is 64, "_" is 95.
PolylineChars == {63, 64, 95}

Polylines == SeqsUpTo(PolylineChars, MaxPolylineLen)

\* 1 << (5 * k)
RECURSIVE Pow32(_)
Pow32(k) == IF k = 0 THEN 1 ELSE 32 * Pow32(k - 1)

\* PolylineCodec._trans: one varint from value at index (1-based here);
\* value[index] past the end raises IndexError
RECURSIVE Trans(_, _, _, _)
Trans(value, index, acc, chunks) ==
    IF index > Len(value)
    THEN [raised |-> TRUE]
    ELSE LET byte == value[index] - 63
             acc2 == acc + (byte % 32) * Pow32(chunks)
         IN  IF byte >= 32
             THEN Trans(value, index + 1, acc2, chunks + 1)
             ELSE [raised |-> FALSE,
                   change |-> IF acc2 % 2 = 1
                              THEN -(acc2 \div 2) - 1
                              ELSE acc2 \div 2,
                   index |-> index + 1]

\* polyline.decode: [raised, points], points in units of 1e-5 degree
RECURSIVE DecodeFrom(_, _, _, _, _)
DecodeFrom(expression, index, lat, lng, coordinates) ==
    IF index > Len(expression)
    THEN [raised |-> FALSE, points |-> coordinates]
    ELSE LET lat_change == Trans(expression, index, 0, 0)
         IN  IF lat_change.raised
             THEN [raised |-> TRUE]
             ELSE LET lng_change == Trans(expression, lat_change.index, 0, 0)
                  IN  IF lng_change.raised
                      THEN [raised |-> TRUE]
                      ELSE DecodeFrom(expression, lng_change.index,
                                      lat + lat_change.change,
                                      lng + lng_change.change,
                                      Append(coordinates,
                                             <<lat + lat_change.change,
                                               lng + lng_change.change>>))

Decode(expression) == DecodeFrom(expression, 1, 0, 0, <<>>)

\* the waypoint lists the agent may pass to display_map
WaypointLists ==
    {<<>>,
     <<[address |-> "Home", lat |-> 100, lng |-> 200, details |-> "Starting Point"],
       [address |-> "A", lat |-> 101, lng |-> 201, details |-> "Stop 1: A"]>>,
     <<[address |-> "Home", details |-> "Starting Point"]>>}

\* the marker loop raises KeyError on a waypoint without one of its keys
MarkersRaise(waypoints) ==
    \E k \in 1..Len(waypoints) :
        ~({"address", "lat", "lng", "details"} \subseteq DOMAIN waypoints[k])

\* the merged value: the new path with the new stops added to the old ones
display_map_Merges(encoded_polyline, waypoints) ==
    [type |-> "dict",
     encoded_polyline |-> encoded_polyline,
     ordered_waypoints |->
         IF session_map_data = None
         THEN waypoints
         ELSE session_map_data.ordered_waypoints \o waypoints]

\* display_map: the value it stores in st.session_state.map_data
display_map(encoded_polyline, waypoints) ==
    [type |-> "dict",
     encoded_polyline |-> encoded_polyline,
     ordered_waypoints |-> waypoints]

\* st.chat_input returns a prompt: the script starts the agent's turn
UserInput ==
    /\ pc = "idle"
    /\ pc' = "agent"
    /\ turn_calls' = <<>>
    /\ last_call' = None
    /\ UNCHANGED <<session_map_data, view, serverVars, callbackVars>>

\* during runner.run_async the agent invokes the display_map tool
AgentCallsDisplayMap ==
    /\ pc = "agent"
    /\ Len(turn_calls) < MaxTurnCalls
    /\ \E encoded_polyline \in Polylines, waypoints \in WaypointLists :
        /\ session_map_data' = display_map(encoded_polyline, waypoints)
        /\ last_call' = [tool |-> "display_map",
                         encoded_polyline |-> encoded_polyline,
                         waypoints |-> waypoints]
    /\ turn_calls' = Append(turn_calls, "display_map")
    /\ UNCHANGED <<pc, view, serverVars, callbackVars>>

\* ... or one of its other tools (mcp_tools, SearchAgent)
AgentCallsOtherTool ==
    /\ pc = "agent"
    /\ Len(turn_calls) < MaxTurnCalls
    /\ \E tool \in {"get_directions", "SearchAgent"} :
        /\ last_call' = [tool |-> tool]
        /\ turn_calls' = Append(turn_calls, tool)
    /\ UNCHANGED <<session_map_data, pc, view, serverVars, callbackVars>>

\* the final response arrives; the script appends it and calls st.rerun()
AgentFinalResponse ==
    /\ pc = "agent"
    /\ pc' = "rerun"
    /\ UNCHANGED <<session_map_data, turn_calls, last_call, view,
                   serverVars, callbackVars>>

\* a script run without new input reaches the map column (lines 155-206)
RenderMap ==
    /\ pc \in {"rerun", "idle"}
    /\ pc' = "idle"
    /\ IF session_map_data = None
       THEN /\ view' = [error |-> "none", map |-> "default"]
            /\ UNCHANGED session_map_data
       ELSE LET data == session_map_data
                decoded == Decode(data.encoded_polyline)
            IN  IF decoded.raised
                   \/ (decoded.points # <<>> /\ MarkersRaise(data.ordered_waypoints))
                THEN /\ view' = [error |-> "Error creating map", map |-> "default"]
                     /\ session_map_data' = None
                ELSE IF decoded.points # <<>>
                THEN /\ view' = [error |-> "none", map |-> "route"]
                     /\ UNCHANGED session_map_data
                ELSE /\ view' = [error |-> "Could not decode route.",
                                 map |-> "default"]
                     /\ UNCHANGED session_map_data
    /\ UNCHANGED <<turn_calls, last_call, serverVars, callbackVars>>

UINext ==
    \/ UserInput
    \/ AgentCallsDisplayMap
    \/ AgentCallsOtherTool
    \/ AgentFinalResponse
    \/ RenderMap

SpecUI == Init /\ [][UINext]_vars

\* C7: a render of a map_data whose polyline does not decode (no points, or
\* decoding raises) shows an error and leaves map_data None.
C7_DecodeFailureDiscardsState ==
    [][(pc \in {"rerun", "idle"} /\ pc' = "idle"
          /\ session_map_data # None
          /\ LET decoded == Decode(session_map_data.encoded_polyline)
             IN  decoded.raised \/ decoded.points = <<>>)
       => (view'.error # "none" /\ session_map_data' = None)]_vars

Range(f) == {f[x] : x \in DOMAIN f}

\* C8 as first stated: map_data changes only in a display_map call, at most
\* once in an agent turn, to the whole new value.
C8_SingleWritePerTurn ==
    [][session_map_data' # session_map_data
       => /\ pc = "agent"
          /\ last_call'.tool = "display_map"
          /\ "display_map" \notin Range(turn_calls)
          /\ session_map_data'
               = [type |-> "dict",
                  encoded_polyline |-> last_call'.encoded_polyline,
                  ordered_waypoints |-> last_call'.waypoints]]_vars

\* C8: map_data changes only in a display_map call, to exactly that call's
\* {encoded_polyline, waypoints} with nothing kept of the previous value, or
\* in a render that raised, to None.
C8_WritesReplaceWholeValue ==
    [][session_map_data' # session_map_data
       => \/ /\ pc = "agent" /\ pc' = "agent"
             /\ turn_calls' = Append(turn_calls, "display_map")
             /\ last_call'.tool = "display_map"
             /\ session_map_data'
                  = [type |-> "dict",
                     encoded_polyline |-> last_call'.encoded_polyline,
                     ordered_waypoints |-> last_call'.waypoints]
          \/ /\ pc \in {"rerun", "idle"} /\ pc' = "idle"
             /\ view'.error = "Error creating map"
             /\ session_map_data' = None]_vars

C8_Witness ==
    /\ pc = "agent"
    /\ turn_calls = <<"display_map", "display_map">>
    /\ last_call.tool = "display_map"
    /\ last_call.waypoints = <<>>
    /\ session_map_data
         = [type |-> "dict",
            encoded_polyline |-> last_call.encoded_polyline,
            ordered_waypoints |-> <<>>]

====
